---- MODULE Spec2Model ----
(***************************************************************************)
(* Model of telegram/_utils/warnings_transition.py: the helpers that warn  *)
(* about renamed arguments / attributes and resolve an (old, new) pair.    *)
(*                                                                         *)
(* Every action is one complete call of one of the module's callables.     *)
(* The state after a call holds the call's inputs, the notices it sent to  *)
(* the warning channel, the calls it made to a wrapped callable, and its   *)
(* outcome (a returned value or a raised exception).                       *)
(***************************************************************************)
EXTENDS Integers, Sequences, FiniteSets, TLC

(***************************************************************************)
(* Bounds of the explored input space.                                     *)
(***************************************************************************)
MaxInt == 1          \* int objects 0..MaxInt
MaxListLen == 1      \* list objects of length 0..MaxListLen
MaxNames == 2        \* length of deprecated_param_names / new_param_names
MaxArgs == 1         \* number of positional arguments of a wrapped call

(***************************************************************************)
(* Python objects.  An object is a record (t, n, s): its type, its numeric *)
(* content (int / bool value, list length) and its text content.           *)
(***************************************************************************)
NoneV == [t |-> "none", n |-> 0, s |-> ""]
NaN == [t |-> "float", n |-> 0, s |-> "nan"]
PyBool(b) == [t |-> "bool", n |-> IF b THEN 1 ELSE 0, s |-> ""]
PyInt(i) == [t |-> "int", n |-> i, s |-> ""]
PyStr(x) == [t |-> "str", n |-> 0, s |-> x]
PyList(len) == [t |-> "list", n |-> len, s |-> ""]

FileNames == {"", "a.jpg", "b.jpg"}

Values ==
    {NoneV, NaN, PyBool(FALSE), PyBool(TRUE)}
        \cup {PyInt(i) : i \in 0..MaxInt}
        \cup {PyStr(x) : x \in FileNames}
        \cup {PyList(l) : l \in 0..MaxListLen}

\* bool(x): None, False, 0, "" and [] are falsy; everything else (NaN too) is truthy.
Truthy(x) ==
    CASE x.t = "none" -> FALSE
      [] x.t \in {"bool", "int"} -> x.n # 0
      [] x.t = "str" -> x.s # ""
      [] x.t = "list" -> x.n # 0
      [] OTHER -> TRUE

IsNumber(x) == x.t \in {"bool", "int"}

\* x == y: bool is a subtype of int (True == 1, False == 0); NaN equals nothing,
\* itself included; objects of unrelated types are unequal.
PyEq(x, y) ==
    IF x = NaN \/ y = NaN THEN FALSE
    ELSE IF IsNumber(x) /\ IsNumber(y) THEN x.n = y.n
    ELSE x = y

\* x != y
PyNe(x, y) == ~PyEq(x, y)

(***************************************************************************)
(* The warning channel.  A notice is one call of warn(), recorded with its  *)
(* arguments; a message is the sequence of the f-string's pieces, in       *)
(* order.  warn() itself lives in telegram/_utils/warnings.py: it hands    *)
(* the notice to the channel and returns.                                  *)
(***************************************************************************)
PTBDeprecationWarning == "PTBDeprecationWarning"

warn(chan, message, category, level) ==
    Append(chan, [message |-> message, category |-> category, stacklevel |-> level])

(***************************************************************************)
(* Outcomes of a call.                                                     *)
(***************************************************************************)
NoMessage == << >>
Return(x) == [kind |-> "return", value |-> x, exc |-> "", msg |-> NoMessage]
Raise(e, m) == [kind |-> "raise", value |-> NoneV, exc |-> e, msg |-> m]

DefaultStacklevel == 3

(***************************************************************************)
(* warn_about_deprecated_arg_return_new_arg                                *)
(***************************************************************************)
ConflictMessage(dn, nn, v) ==
    << "You passed different entities as '", dn, "' and '", nn, "'. ",
       "The parameter '", dn, "' was renamed to '", nn, "' in Bot API ",
       v, ". We recommend using '", nn, "' instead of ", "'", dn, "'." >>

ArgRenamedMessage(dn, nn, v) ==
    << "Bot API ", v, " renamed the argument '", dn, "' to ", "'", nn, "'." >>

\* Faulty variants of the resolver, used to test that the properties below
\* detect a change of the code.
\* - the conflict check is missing:
resolver_without_conflict_check(d, n, dn, nn, v, sl) ==
    IF Truthy(d)
    THEN [outcome |-> Return(d),
          channel |-> warn(<< >>, ArgRenamedMessage(dn, nn, v),
                           PTBDeprecationWarning, sl)]
    ELSE [outcome |-> Return(n), channel |-> << >>]

\* - the conflict check lacks "deprecated_arg != new_arg":
resolver_conflict_on_any_two(d, n, dn, nn, v, sl) ==
    IF Truthy(d) /\ Truthy(n)
    THEN [outcome |-> Raise("ValueError", ConflictMessage(dn, nn, v)),
          channel |-> << >>]
    ELSE IF Truthy(d)
    THEN [outcome |-> Return(d),
          channel |-> warn(<< >>, ArgRenamedMessage(dn, nn, v),
                           PTBDeprecationWarning, sl)]
    ELSE [outcome |-> Return(n), channel |-> << >>]

\* - the last statement is "return deprecated_arg":
resolver_returning_deprecated_arg(d, n, dn, nn, v, sl) ==
    IF Truthy(d) /\ Truthy(n) /\ PyNe(d, n)
    THEN [outcome |-> Raise("ValueError", ConflictMessage(dn, nn, v)),
          channel |-> << >>]
    ELSE IF Truthy(d)
    THEN [outcome |-> Return(d),
          channel |-> warn(<< >>, ArgRenamedMessage(dn, nn, v),
                           PTBDeprecationWarning, sl)]
    ELSE [outcome |-> Return(d), channel |-> << >>]

\* - presence is tested with "is not None" instead of truthiness:
resolver_testing_is_not_None(d, n, dn, nn, v, sl) ==
    IF d # NoneV /\ n # NoneV /\ PyNe(d, n)
    THEN [outcome |-> Raise("ValueError", ConflictMessage(dn, nn, v)),
          channel |-> << >>]
    ELSE IF d # NoneV
    THEN [outcome |-> Return(d),
          channel |-> warn(<< >>, ArgRenamedMessage(dn, nn, v),
                           PTBDeprecationWarning, sl)]
    ELSE [outcome |-> Return(n), channel |-> << >>]

warn_about_deprecated_arg_return_new_arg(d, n, dn, nn, v, sl) ==
    IF Truthy(d) /\ Truthy(n) /\ PyNe(d, n)
    THEN [outcome |-> Raise("ValueError", ConflictMessage(dn, nn, v)),
          channel |-> << >>]
    ELSE IF Truthy(d)
    THEN [outcome |-> Return(d),
          channel |-> warn(<< >>, ArgRenamedMessage(dn, nn, v),
                           PTBDeprecationWarning, sl)]
    ELSE [outcome |-> Return(n), channel |-> << >>]

(***************************************************************************)
(* warn_about_deprecated_attr_in_property                                  *)
(***************************************************************************)
AttrRenamedMessage(dn, nn, v) ==
    << "Bot API ", v, " renamed the attribute '", dn, "' to ", "'", nn, "'." >>

\* Faulty variant: the message leaves out the API version.
attr_notifier_without_version(dn, nn, v, sl) ==
    [outcome |-> Return(NoneV),
     channel |-> warn(<< >>, << "Bot API renamed the attribute '", dn, "' to ", "'", nn, "'." >>,
                      PTBDeprecationWarning, sl)]

warn_about_deprecated_attr_in_property(dn, nn, v, sl) ==
    [outcome |-> Return(NoneV),
     channel |-> warn(<< >>, AttrRenamedMessage(dn, nn, v),
                      PTBDeprecationWarning, sl)]

(***************************************************************************)
(* warn_about_thumb_return_thumbnail: functools.partial binding the three  *)
(* keyword arguments; stacklevel is left to the wrapped function's default.*)
(***************************************************************************)
\* Faulty variant: the two names are bound the wrong way round.
thumb_keywords_swapped ==
    [deprecated_arg_name |-> "thumbnail",
     new_arg_name |-> "thumb",
     bot_api_version |-> "6.6"]

thumb_keywords ==
    [deprecated_arg_name |-> "thumb",
     new_arg_name |-> "thumbnail",
     bot_api_version |-> "6.6"]

warn_about_thumb_return_thumbnail(d, n) ==
    warn_about_deprecated_arg_return_new_arg(
        d, n, thumb_keywords.deprecated_arg_name, thumb_keywords.new_arg_name,
        thumb_keywords.bot_api_version, DefaultStacklevel)

(***************************************************************************)
(* warn_about_required_renamed_param_passed_as_kwarg                       *)
(***************************************************************************)
WrapperStacklevel == 3

Min(a, b) == IF a <= b THEN a ELSE b

\* zip(a, b): pairs up to the end of the shorter sequence.
Zip(a, b) == [i \in 1..Min(Len(a), Len(b)) |-> << a[i], b[i] >>]

ParamRenamedMessage(deprecated, new, v) ==
    << "Bot API ", v, " renamed the argument '", deprecated, "' to '", new, "'",
       ". Make sure you rename it in your code." >>

\* Faulty variant: the new name is looked up in the keywords.
WarnIfPassed_looking_up_new(chan, deprecated, new, kw, v) ==
    IF new \in DOMAIN kw
    THEN warn(chan, ParamRenamedMessage(deprecated, new, v),
              PTBDeprecationWarning, WrapperStacklevel)
    ELSE chan

\* One iteration of the loop body for the pair (deprecated, new).
WarnIfPassed(chan, deprecated, new, kw, v) ==
    IF deprecated \in DOMAIN kw
    THEN warn(chan, ParamRenamedMessage(deprecated, new, v),
              PTBDeprecationWarning, WrapperStacklevel)
    ELSE chan

\* The for loop over the zipped pairs, from pair i on.
RECURSIVE WarnLoop(_, _, _, _, _)
WarnLoop(pairs, i, kw, v, chan) ==
    IF i > Len(pairs) THEN chan
    ELSE WarnLoop(pairs, i + 1, kw, v,
                  WarnIfPassed(chan, pairs[i][1], pairs[i][2], kw, v))

\* Faulty variant: the deprecated keywords are dropped before func is called.
wrapper_dropping_deprecated(dpn, npn, v, fr, a, kw) ==
    LET chan == WarnLoop(Zip(dpn, npn), 1, kw, v, << >>)
        kept == DOMAIN kw \ {dpn[i] : i \in 1..Len(dpn)}
    IN [channel |-> chan,
        calls |-> << [args |-> a, kwargs |-> [k \in kept |-> kw[k]],
                      notices_before |-> Len(chan)] >>,
        outcome |-> fr]

\* wrapper(*args, **kwargs) of the decorated func; fr is what func does when
\* it is called with these arguments (returns a value or raises).
wrapper(dpn, npn, v, fr, a, kw) ==
    LET chan == WarnLoop(Zip(dpn, npn), 1, kw, v, << >>)
    IN [channel |-> chan,
        calls |-> << [args |-> a, kwargs |-> kw, notices_before |-> Len(chan)] >>,
        outcome |-> fr]

(***************************************************************************)
(* State: the current call (pc names the callable, "idle" between calls),  *)
(* its arguments, and what it did.                                         *)
(***************************************************************************)
VARIABLES
    pc,
    deprecated_arg, new_arg, deprecated_arg_name, new_arg_name,
    deprecated_attr_name, new_attr_name,
    bot_api_version, stacklevel,
    deprecated_param_names, new_param_names, args, kwargs, func_result,
    channel, calls, outcome

vars ==
    << pc, deprecated_arg, new_arg, deprecated_arg_name, new_arg_name,
       deprecated_attr_name, new_attr_name, bot_api_version, stacklevel,
       deprecated_param_names, new_param_names, args, kwargs, func_result,
       channel, calls, outcome >>

\* Input domains.
ArgNames == {"thumb", "thumbnail", "file"}
Versions == {"6.6", "6.7"}
Stacklevels == {2, DefaultStacklevel}
ParamNames == {"thumb", "thumbnail", "file"}
NewParamNames == {"thumbnail", "document"}
KwValues == {NoneV, PyStr("a.jpg")}
SeqsUpTo(S, k) == UNION {[1..m -> S] : m \in 0..k}
KwargsSets == UNION {[D -> KwValues] : D \in SUBSET ParamNames}
FuncResults == {Return(NoneV), Return(PyStr("a.jpg")), Raise("TypeError", << "bad call" >>)}

NoOutcome == [kind |-> "none", value |-> NoneV, exc |-> "", msg |-> NoMessage]
NoKwargs == [k \in {} |-> NoneV]

Init ==
    /\ pc = "idle"
    /\ deprecated_arg = NoneV
    /\ new_arg = NoneV
    /\ deprecated_arg_name = ""
    /\ new_arg_name = ""
    /\ deprecated_attr_name = ""
    /\ new_attr_name = ""
    /\ bot_api_version = ""
    /\ stacklevel = 0
    /\ deprecated_param_names = << >>
    /\ new_param_names = << >>
    /\ args = << >>
    /\ kwargs = NoKwargs
    /\ func_result = NoOutcome
    /\ channel = << >>
    /\ calls = << >>
    /\ outcome = NoOutcome

CallArgResolver ==
    /\ pc = "idle"
    /\ \E d \in Values, n \in Values, dn \in ArgNames, nn \in ArgNames,
          v \in Versions, sl \in Stacklevels :
        LET r == warn_about_deprecated_arg_return_new_arg(d, n, dn, nn, v, sl)
        IN /\ pc' = "arg"
           /\ deprecated_arg' = d
           /\ new_arg' = n
           /\ deprecated_arg_name' = dn
           /\ new_arg_name' = nn
           /\ bot_api_version' = v
           /\ stacklevel' = sl
           /\ channel' = r.channel
           /\ outcome' = r.outcome
    /\ UNCHANGED << deprecated_attr_name, new_attr_name, deprecated_param_names,
                    new_param_names, args, kwargs, func_result, calls >>

CallAttrNotifier ==
    /\ pc = "idle"
    /\ \E dn \in ArgNames, nn \in ArgNames, v \in Versions, sl \in Stacklevels :
        LET r == warn_about_deprecated_attr_in_property(dn, nn, v, sl)
        IN /\ pc' = "attr"
           /\ deprecated_attr_name' = dn
           /\ new_attr_name' = nn
           /\ bot_api_version' = v
           /\ stacklevel' = sl
           /\ channel' = r.channel
           /\ outcome' = r.outcome
    /\ UNCHANGED << deprecated_arg, new_arg, deprecated_arg_name, new_arg_name,
                    deprecated_param_names, new_param_names, args, kwargs,
                    func_result, calls >>

CallThumb ==
    /\ pc = "idle"
    /\ \E d \in Values, n \in Values :
        LET r == warn_about_thumb_return_thumbnail(d, n)
        IN /\ pc' = "thumb"
           /\ deprecated_arg' = d
           /\ new_arg' = n
           /\ channel' = r.channel
           /\ outcome' = r.outcome
    /\ UNCHANGED << deprecated_arg_name, new_arg_name, deprecated_attr_name,
                    new_attr_name, bot_api_version, stacklevel,
                    deprecated_param_names, new_param_names, args, kwargs,
                    func_result, calls >>

CallWrapped ==
    /\ pc = "idle"
    /\ \E dpn \in SeqsUpTo(ParamNames, MaxNames),
          npn \in SeqsUpTo(NewParamNames, MaxNames),
          v \in Versions, fr \in FuncResults,
          a \in SeqsUpTo(KwValues, MaxArgs), kw \in KwargsSets :
        LET r == wrapper(dpn, npn, v, fr, a, kw)
        IN /\ pc' = "wrapped"
           /\ deprecated_param_names' = dpn
           /\ new_param_names' = npn
           /\ bot_api_version' = v
           /\ func_result' = fr
           /\ args' = a
           /\ kwargs' = kw
           /\ channel' = r.channel
           /\ calls' = r.calls
           /\ outcome' = r.outcome
    /\ UNCHANGED << deprecated_arg, new_arg, deprecated_arg_name, new_arg_name,
                    deprecated_attr_name, new_attr_name, stacklevel >>

\* The call is over; the module keeps nothing between calls.
Finish ==
    /\ pc # "idle"
    /\ pc' = "idle"
    /\ deprecated_arg' = NoneV
    /\ new_arg' = NoneV
    /\ deprecated_arg_name' = ""
    /\ new_arg_name' = ""
    /\ deprecated_attr_name' = ""
    /\ new_attr_name' = ""
    /\ bot_api_version' = ""
    /\ stacklevel' = 0
    /\ deprecated_param_names' = << >>
    /\ new_param_names' = << >>
    /\ args' = << >>
    /\ kwargs' = NoKwargs
    /\ func_result' = NoOutcome
    /\ channel' = << >>
    /\ calls' = << >>
    /\ outcome' = NoOutcome

Next ==
    \/ CallArgResolver
    \/ CallAttrNotifier
    \/ CallThumb
    \/ CallWrapped
    \/ Finish

Spec == Init /\ [][Next]_vars

(***************************************************************************)
(* Properties                                                              *)
(***************************************************************************)
\* "piece in message" for a piece the f-string interpolates.
Contains(message, piece) == \E i \in 1..Len(message) : message[i] = piece
Conflict == outcome.kind = "raise" /\ outcome.exc = "ValueError"
Notices == Len(channel)
Names3(message, a, b, v) ==
    Contains(message, a) /\ Contains(message, b) /\ Contains(message, v)

\* C1: a resolver call whose deprecated_arg and new_arg are both truthy and
\* unequal raises ValueError; the message contains deprecated_arg_name,
\* new_arg_name and bot_api_version; nothing is returned and no notice is emitted.
C1_ConflictRaised ==
    (pc = "arg" /\ Truthy(deprecated_arg) /\ Truthy(new_arg)
        /\ PyNe(deprecated_arg, new_arg))
    => /\ Conflict
       /\ Names3(outcome.msg, deprecated_arg_name, new_arg_name, bot_api_version)
       /\ Notices = 0

C1_Witness ==
    /\ pc = "arg"
    /\ deprecated_arg = PyStr("a.jpg")
    /\ new_arg = PyStr("b.jpg")
    /\ deprecated_arg_name = "thumb"
    /\ new_arg_name = "thumbnail"
    /\ Conflict

\* C2: for every value X passed as deprecated_arg (None is the marker of "not
\* passed") with new_arg = None, the resolver returns X and emits exactly one
\* notice.
C2_OldOnlyReturnedWithOneNotice ==
    (pc = "arg" /\ deprecated_arg # NoneV /\ new_arg = NoneV)
    => /\ outcome = Return(deprecated_arg)
       /\ Notices = 1

\* C3: with deprecated_arg = None and new_arg = X the resolver returns X, emits
\* no notice and raises nothing.
C3_NewOnlyReturnedSilently ==
    (pc = "arg" /\ deprecated_arg = NoneV)
    => /\ outcome = Return(new_arg)
       /\ Notices = 0

C3_Witness ==
    /\ pc = "arg"
    /\ deprecated_arg = NoneV
    /\ new_arg = PyStr("b.jpg")
    /\ outcome.kind = "return"
    /\ outcome.value = PyStr("b.jpg")
    /\ channel = << >>

C5_NonNoneOldWarns ==
    (pc = "arg" /\ deprecated_arg # NoneV /\ ~Conflict)
    => /\ Notices >= 1
       /\ outcome.kind = "return"

\* C6: every call of the attribute notifier emits exactly one notice of the
\* deprecation category whose message contains both names and the version,
\* and returns None.
C6_AttrNoticeAlways ==
    pc = "attr"
    => /\ Notices = 1
       /\ channel[1].category = PTBDeprecationWarning
       /\ Names3(channel[1].message, deprecated_attr_name, new_attr_name,
                 bot_api_version)
       /\ outcome = Return(NoneV)

C6_Witness ==
    /\ pc = "attr"
    /\ deprecated_attr_name = "thumb"
    /\ new_attr_name = "thumbnail"
    /\ bot_api_version = "6.6"
    /\ Notices = 1

\* C7: a wrapped call emits one notice per position i, within the shorter of
\* the two name sequences, whose deprecated_param_names[i] is a keyword of the
\* call; the notices name deprecated_param_names[i] and new_param_names[i], in
\* order of i; nothing else produces a notice.
Matched ==
    {i \in 1..Min(Len(deprecated_param_names), Len(new_param_names)) :
        deprecated_param_names[i] \in DOMAIN kwargs}
Rank(i) == Cardinality({j \in Matched : j <= i})

C7_OneNoticePerMatchedPair ==
    pc = "wrapped"
    => /\ Notices = Cardinality(Matched)
       /\ \A i \in Matched :
            /\ Contains(channel[Rank(i)].message, deprecated_param_names[i])
            /\ Contains(channel[Rank(i)].message, new_param_names[i])

C7_Witness ==
    /\ pc = "wrapped"
    /\ Len(deprecated_param_names) = 2
    /\ Len(new_param_names) = 1
    /\ deprecated_param_names[1] # deprecated_param_names[2]
    /\ deprecated_param_names[1] \in DOMAIN kwargs
    /\ deprecated_param_names[2] \in DOMAIN kwargs
    /\ Len(args) = 1
    /\ Notices = 1

\* C8: a wrapped call invokes func exactly once, after all its notices, with
\* the positional and keyword arguments the wrapper received, and ends as func
\* ended (same return value or same raised error).
C8_ForwardedVerbatim ==
    pc = "wrapped"
    => /\ Len(calls) = 1
       /\ calls[1].args = args
       /\ calls[1].kwargs = kwargs
       /\ calls[1].notices_before = Notices
       /\ outcome = func_result

C8_Witness ==
    /\ pc = "wrapped"
    /\ Notices = 2
    /\ Len(args) = 1
    /\ Len(calls) = 1
    /\ calls[1].notices_before = 2
    /\ DOMAIN calls[1].kwargs = {"thumb", "file"}
    /\ outcome.kind = "raise"

\* C9: warn_about_thumb_return_thumbnail(deprecated_arg, new_arg) ends as the
\* resolver called with the names "thumb", "thumbnail" and the version "6.6"
\* ends, with the same notices, and its messages contain these three strings.
C9_ThumbIsResolverWithBoundNames ==
    pc = "thumb"
    => LET r == warn_about_deprecated_arg_return_new_arg(
                    deprecated_arg, new_arg, "thumb", "thumbnail", "6.6",
                    DefaultStacklevel)
       IN /\ outcome = r.outcome
          /\ channel = r.channel
          /\ \A i \in 1..Notices :
                Names3(channel[i].message, "thumb", "thumbnail", "6.6")
          /\ Conflict => Names3(outcome.msg, "thumb", "thumbnail", "6.6")

C9_Witness ==
    /\ pc = "thumb"
    /\ deprecated_arg = PyStr("a.jpg")
    /\ new_arg = NoneV
    /\ outcome = Return(PyStr("a.jpg"))
    /\ Notices = 1
    /\ Names3(channel[1].message, "thumb", "thumbnail", "6.6")

====
